---- MODULE Spec2Model ----
(***************************************************************************)
(* Model of the chat server's durable queue pipeline:                      *)
(*   src/messagequeue.js  - class MessageQueue (initialize with retry,     *)
(*                          queueMessage, queueNotification, the two       *)
(*                          consumers, processMessage, processNotification)*)
(*   src/server.js        - the connection hub: the Redis adapter setup,   *)
(*                          the connection handler and the send_message,   *)
(*                          mark_read, create_chat and disconnect handlers *)
(* The AMQP broker is the environment.  It is modelled by its contract as  *)
(* used by the code: connect fails while the broker is unreachable, every  *)
(* channel operation (assertQueue, consume, sendToQueue, ack, nack) throws *)
(* or rejects once the channel's connection has closed, and the broker     *)
(* requeues the unacknowledged deliveries of a connection that closes.     *)
(* One action is one run-to-the-next-await of the JavaScript code.         *)
(***************************************************************************)
EXTENDS Integers, Sequences, FiniteSets, TLC

\* ---------------------------------------------------------------- bounds
MaxItems   == 2   \* send_message events plus items other producers publish
MaxOutages == 1   \* times the broker becomes unreachable
MaxSessions == 2  \* sockets that connect to this instance
MaxChats   == 1   \* create_chat events
MaxReads   == 1   \* mark_read events

\* ------------------------------------------------------------- constants
Undef     == 0                       \* JavaScript undefined / absent field
NullConn  == 0                       \* this.connection = null, this.channel = null
UserId    == 123                     \* verifyToken's placeholder user (server.js:151)
ChatQ     == "chat_messages"
NotifQ    == "notifications"
Queues    == {ChatQ, NotifQ}
ChatIds   == {1, 2}
RoomIds   == {1}                     \* rooms the clients send to
MsgIds    == {1}
ConnIds   == 1..(MaxOutages + 1)
Sessions  == 1..MaxSessions          \* socket ids, numbered in connection order
NoSocket  == 0                       \* findUserSocket's null
UserRoom  == 0                       \* the room `user:user123`
NewChatIds == 3..(MaxChats + 2)      \* the ids `chat_${Date.now()}` of created chats
OtherRoom == MaxChats + 3            \* a room the user does not belong to
\* getUserChatRooms(userId): the placeholder answers room1 and room2 for anyone.
getUserChatRooms(userId) == {1, 2}
RoomKeys  == {UserRoom} \cup getUserChatRooms(UserId) \cup NewChatIds \cup {OtherRoom}
SendTargets == {1, 3, OtherRoom}     \* rooms the hub's clients address

\* ------------------------------------------------------------------ JSON
\* A JavaScript object is a function from its defined keys to values > 0.
Get(obj, key) == IF key \in DOMAIN obj THEN obj[key] ELSE Undef

\* JSON.stringify: keys whose value is undefined are left out.
JSONstringify(obj) ==
  [kind |-> "object",
   body |-> [k \in {k \in DOMAIN obj : obj[k] # Undef} |-> obj[k]]]

\* Payloads that are not the serialisation of an object.
Garbage  == [kind |-> "garbage", body |-> [k \in {} |-> 0]]
NullJSON == [kind |-> "null",    body |-> [k \in {} |-> 0]]

\* JSON.parse: throws on text that is not JSON, yields null for "null".
ParseThrows(content) == content.kind = "garbage"
JSONparse(content)   == [isNull |-> content.kind = "null", obj |-> content.body]

\* ----------------------------------------------------------------- state
VARIABLES
  connection,     \* this.connection: NullConn or the id of the last connection opened
  channel,        \* this.channel: NullConn or the id of the connection it was created on
  initPc,         \* the await initialize() is suspended at, or "retryWait" / "done"
  retryTimer,     \* TRUE while the setTimeout of the catch block is pending
  brokerUp,       \* the broker is reachable
  outages,        \* how often the broker has become unreachable
  openConns,      \* connections (and their channels) that are still open
  declared,       \* declared[c]: queues asserted durable through the channel of c
  consumePending, \* queues whose channel.consume call has not been confirmed yet
  consumers,      \* queues that have a registered consumer callback
  queue,          \* queue[q]: ready items of q at the broker, head first
  inflight,       \* consumer callbacks suspended at their await, in delivery order
  clock,          \* number of send_message events received so far
  sends,          \* send_message handlers suspended at await queueMessage (with
                  \* whether the broker was reachable when queueMessage ran)
  broadcasts,     \* messages emitted as new_message to their chat room
  errors,         \* timestamps of the messages whose sender got an error event
  enqueued,       \* timestamps of the messages queueMessage put on chat_messages
  produced,       \* items another producer has put on the queues
  adapterReady,   \* io.adapter(createAdapter(...)) has run
  session,        \* session[s]: "none", "open" or "closed"
  joinPending,    \* sockets whose getUserChatRooms(...).then callback is pending
  rooms,          \* io.sockets.adapter.rooms: room key -> sockets of this instance
  chats,          \* chat id -> the create_chat event that made it
  markReads,      \* the mark_read events handled, pending (done = FALSE) or finished
  disconnectPending, \* sockets whose disconnect handler is at its await
  readStatus,     \* the stored read / delivery times of each message for the user
  received,       \* received[s]: how often socket s was sent each event
  remoteReceived, \* the same for the user's socket on another instance
  notified,       \* timestamps of the client messages whose notification was enqueued
  notifCount,     \* notifCount[k]: notifications enqueued by queueNotification with key k
  ackCount,       \* ackCount[k]: chat_messages items with key k that were acked
  lastDone        \* the delivery attempt whose callback finished last

vars == <<connection, channel, initPc, retryTimer, brokerUp, outages, openConns,
          declared, consumePending, consumers, queue, inflight, clock, sends,
          broadcasts, errors, enqueued, produced, notifCount, ackCount, lastDone,
          notified, adapterReady, session, joinPending, rooms, chats, markReads,
          disconnectPending, readStatus, received, remoteReceived>>

mqVars     == <<connection, channel, initPc, retryTimer>>
serverVars == <<clock, sends, broadcasts, errors, enqueued>>
ghostVars  == <<notifCount, ackCount, lastDone, notified>>
hubVars    == <<adapterReady, session, joinPending, rooms, chats, markReads,
                disconnectPending, readStatus>>
emitVars   == <<received, remoteReceived>>
pipeVars   == <<brokerUp, outages, openConns, declared, consumePending, consumers,
                inflight, produced>>

\* The key a notification carries: the messageId and chatId of its message.
Keys       == (MsgIds \cup {Undef}) \X (ChatIds \cup {Undef})
KeyOf(obj) == <<Get(obj, "id"), Get(obj, "chatId")>>
NotifKey(obj) == <<Get(obj, "messageId"), Get(obj, "chatId")>>

NoAttempt == [q |-> "none", failed |-> FALSE, sent |-> 0,
              acks |-> 0, nacks |-> 0, open |-> TRUE, back |-> FALSE]

ChannelOpen == channel # NullConn /\ channel \in openConns

\* ------------------------------------------------------------------ Init
\* The state right after `new MessageQueue()`: the constructor has called
\* initialize(), which is suspended at `await amqp.connect(...)`.
\* An event a socket is sent: its name, its room and the message, chat or user
\* it is about.
Event(type, chatId, id) == [type |-> type, chatId |-> chatId, id |-> id]

NoEvents == [e \in {} |-> 0]

\* The hub when server.js has run: no socket yet, the Redis clients connecting.
InitHub ==
  /\ adapterReady = FALSE
  /\ session = [s \in Sessions |-> "none"]
  /\ joinPending = {}
  /\ rooms = [r \in RoomKeys |-> {}]
  /\ chats = [c \in {} |-> 0]
  /\ markReads = {}
  /\ disconnectPending = {}
  /\ readStatus = [m \in MsgIds |-> [readAt |-> Undef, deliveredAt |-> Undef]]
  /\ received = [s \in Sessions |-> NoEvents]
  /\ remoteReceived = NoEvents

Init ==
  /\ connection = NullConn
  /\ channel = NullConn
  /\ initPc = "connect"
  /\ retryTimer = FALSE
  /\ brokerUp \in BOOLEAN
  /\ outages = 0
  /\ openConns = {}
  /\ declared = [c \in ConnIds |-> {}]
  /\ consumePending = {}
  /\ consumers = {}
  /\ queue = [q \in Queues |-> <<>>]
  /\ inflight = <<>>
  /\ clock = 0
  /\ sends = {}
  /\ broadcasts = {}
  /\ errors = {}
  /\ enqueued = {}
  /\ produced = 0
  /\ notifCount = [k \in Keys |-> 0]
  /\ ackCount = [k \in Keys |-> 0]
  /\ lastDone = NoAttempt
  /\ notified = {}
  /\ InitHub

\* ------------------------------------------------ MessageQueue.initialize
\* catch (error): log, then setTimeout(() => this.initialize(), 5000).
InitializeCatch ==
  /\ initPc' = "retryWait"
  /\ retryTimer' = TRUE

\* The timer fires: initialize() runs up to `await amqp.connect(...)`.
RetryTimerFires ==
  /\ retryTimer
  /\ retryTimer' = FALSE
  /\ initPc' = "connect"
  /\ UNCHANGED <<connection, channel, brokerUp, outages, openConns, declared,
                 consumePending, consumers, queue, inflight, serverVars,
                 produced, ghostVars, hubVars, emitVars>>

\* `this.connection = await amqp.connect(...)`, then createChannel() is called.
InitConnect ==
  /\ initPc = "connect"
  /\ IF brokerUp
       THEN /\ connection' = connection + 1
            /\ openConns' = openConns \cup {connection + 1}
            /\ initPc' = "createChannel"
            /\ UNCHANGED retryTimer
       ELSE /\ InitializeCatch
            /\ UNCHANGED <<connection, openConns>>
  /\ UNCHANGED <<channel, brokerUp, outages, declared, consumePending, consumers,
                 queue, inflight, serverVars, produced, ghostVars, hubVars, emitVars>>

\* `this.channel = await this.connection.createChannel()`, then the first
\* assertQueue is called.
InitCreateChannel ==
  /\ initPc = "createChannel"
  /\ IF connection \in openConns
       THEN /\ channel' = connection
            /\ initPc' = "assertChat"
            /\ UNCHANGED retryTimer
       ELSE /\ InitializeCatch
            /\ UNCHANGED channel
  /\ UNCHANGED <<connection, brokerUp, outages, openConns, declared, consumePending,
                 consumers, queue, inflight, serverVars, produced, ghostVars, hubVars, emitVars>>

\* `await this.channel.assertQueue('chat_messages', { durable: true })`.
InitAssertChat ==
  /\ initPc = "assertChat"
  /\ IF ChannelOpen
       THEN /\ declared' = [declared EXCEPT ![channel] = @ \cup {ChatQ}]
            /\ initPc' = "assertNotif"
            /\ UNCHANGED retryTimer
       ELSE /\ InitializeCatch
            /\ UNCHANGED declared
  /\ UNCHANGED <<connection, channel, brokerUp, outages, openConns, consumePending,
                 consumers, queue, inflight, serverVars, produced, ghostVars, hubVars, emitVars>>

\* startMessageProcessing(): both channel.consume calls are issued; their
\* promises are neither awaited nor caught.
startMessageProcessing == Queues

\* `await this.channel.assertQueue('notifications', { durable: true })`; on
\* success the rest of the try block runs: the log line and
\* this.startMessageProcessing(), after which initialize() returns.
InitAssertNotif ==
  /\ initPc = "assertNotif"
  /\ IF ChannelOpen
       THEN /\ declared' = [declared EXCEPT ![channel] = @ \cup {NotifQ}]
            /\ consumePending' = startMessageProcessing
            /\ initPc' = "done"
            /\ UNCHANGED retryTimer
       ELSE /\ InitializeCatch
            /\ UNCHANGED <<declared, consumePending>>
  /\ UNCHANGED <<connection, channel, brokerUp, outages, openConns, consumers,
                 queue, inflight, serverVars, produced, ghostVars, hubVars, emitVars>>

\* The broker confirms a consume call (in the order the calls were made) and
\* the callback is registered.
ConsumeOk(q) ==
  /\ q \in consumePending
  /\ q = ChatQ \/ ChatQ \notin consumePending
  /\ ChannelOpen
  /\ consumePending' = consumePending \ {q}
  /\ consumers' = consumers \cup {q}
  /\ UNCHANGED <<mqVars, brokerUp, outages, openConns, declared, queue, inflight,
                 serverVars, produced, ghostVars, hubVars, emitVars>>

\* ------------------------------------------------------- broker contract
\* A queue that hands out the item published last first.
EnqueueAtHead(qs, q, content) == [qs EXCEPT ![q] = <<content>> \o @]

\* channel.sendToQueue(q, content, { persistent: true }) on an open channel.
Enqueue(qs, q, content) == [qs EXCEPT ![q] = Append(@, content)]

\* channel.nack(msg): requeue defaults to true, the item returns to the head.
Requeue(qs, q, content) == [qs EXCEPT ![q] = <<content>> \o @]

RECURSIVE RequeueAll(_, _)
\* The deliveries `as` (in delivery order) return to the heads of their queues.
RequeueAll(qs, as) ==
  IF as = <<>> THEN qs
  ELSE Requeue(RequeueAll(qs, Tail(as)), Head(as).q, Head(as).content)

InQueue(qs, q, content) == \E j \in 1..Len(qs[q]) : qs[q][j] = content

RemoveAt(seq, i) == SubSeq(seq, 1, i - 1) \o SubSeq(seq, i + 1, Len(seq))

\* ----------------------------------- queueMessage / queueNotification
\* queueMessage that returns quietly when this.channel is still null.
queueMessageThrowsOnlyWhenClosed == channel # NullConn /\ channel \notin openConns

\* `if (!this.channel) throw ...; return this.channel.sendToQueue(...)`:
\* TRUE when the call throws, either on the null check or inside sendToQueue
\* because the channel has closed.
queueMessageThrows == channel = NullConn \/ channel \notin openConns

queueNotificationThrows == channel = NullConn \/ channel \notin openConns

\* ------------------------------------- processMessage / processNotification
\* The notification object processMessage builds (type 1 = 'message_delivered').
Notification(message) ==
  [type       |-> 1,
   messageId  |-> Get(message, "id"),
   chatId     |-> Get(message, "chatId"),
   recipients |-> Get(message, "recipients")]

\* processMessage without the queueNotification call.
processMessageNoNotify(message) ==
  [threw |-> message.isNull, sent |-> <<>>]

\* processMessage(message): reading message.id of null throws a TypeError;
\* otherwise the notification is handed to queueNotification.  The result says
\* whether the returned promise rejects and what was sent to which queue.
processMessage(message) ==
  IF message.isNull
    THEN [threw |-> TRUE, sent |-> <<>>]
    ELSE IF queueNotificationThrows
      THEN [threw |-> TRUE, sent |-> <<>>]
      ELSE [threw |-> FALSE,
            sent  |-> <<[q |-> NotifQ,
                         content |-> JSONstringify(Notification(message.obj))]>>]

\* processNotification that passes the notification on to the queue again.
processNotificationForwards(notification) ==
  [threw |-> FALSE,
   sent  |-> <<[q |-> NotifQ, content |-> JSONstringify(notification.obj)]>>]

\* processNotification(notification): only logs; JSON.stringify(null) is fine.
processNotification(notification) == [threw |-> FALSE, sent |-> <<>>]

RECURSIVE EnqueueAll(_, _)
EnqueueAll(qs, sent) ==
  IF sent = <<>> THEN qs
  ELSE EnqueueAll(Enqueue(qs, Head(sent).q, Head(sent).content), Tail(sent))

RECURSIVE CountAll(_, _)
\* notifCount after the items of `sent` that went to notifications.
CountAll(cnt, sent) ==
  IF sent = <<>> THEN cnt
  ELSE CountAll(IF Head(sent).q = NotifQ /\ Head(sent).content.kind = "object"
                  THEN [cnt EXCEPT ![NotifKey(Head(sent).content.body)] = @ + 1]
                  ELSE cnt,
                Tail(sent))

\* ------------------------------------------------- the consumer callbacks
\* A callback whose nack sits in a finally block instead of the catch block.
consumerSettleFinally(threw, open) ==
  [acks |-> IF ~threw /\ open THEN 1 ELSE 0, nacks |-> IF open THEN 1 ELSE 0]

\* A callback whose catch block only logs.
consumerSettleNoNack(threw, open) ==
  [acks |-> IF ~threw /\ open THEN 1 ELSE 0, nacks |-> 0]

\* The tail of a callback after its await: `this.channel.ack(msg)` when the
\* processing promise fulfilled, and the catch block's `this.channel.nack(msg)`
\* when anything in the try block threw, ack included.  ack and nack throw on
\* a closed channel and then settle nothing.
consumerSettle(threw, open) ==
  LET ackOk  == ~threw /\ open
      caught == threw \/ ~open
      nackOk == caught /\ open
  IN [acks |-> IF ackOk THEN 1 ELSE 0, nacks |-> IF nackOk THEN 1 ELSE 0]

\* The broker delivers the head of q; the callback runs up to its await:
\* JSON.parse, then processMessage / processNotification.  A parse error is
\* thrown synchronously, so the catch block nacks within the same step.
Consume(q) ==
  /\ q \in consumers
  /\ ChannelOpen
  /\ queue[q] # <<>>
  /\ LET content == Head(queue[q])
         rest    == [queue EXCEPT ![q] = Tail(@)]
     IN IF ParseThrows(content)
          THEN LET out == consumerSettle(TRUE, TRUE)
               IN /\ queue' = IF out.nacks = 1 THEN Requeue(rest, q, content) ELSE rest
                  /\ lastDone' = [q |-> q, failed |-> TRUE, sent |-> 0,
                                  acks |-> out.acks, nacks |-> out.nacks, open |-> TRUE,
                                  back |-> InQueue(queue', q, content)]
                  /\ ackCount' = IF out.acks = 1 /\ q = ChatQ
                                   THEN [ackCount EXCEPT ![KeyOf(content.body)] = @ + 1]
                                   ELSE ackCount
                  /\ UNCHANGED <<inflight, notifCount, notified>>
          ELSE LET message == JSONparse(content)
                   r == IF q = ChatQ THEN processMessage(message)
                                     ELSE processNotification(message)
               IN /\ queue' = EnqueueAll(rest, r.sent)
                  /\ notifCount' = CountAll(notifCount, r.sent)
                  /\ notified' = IF q = ChatQ /\ r.sent # <<>>
                                     /\ Get(message.obj, "timestamp") # Undef
                                    THEN notified \cup {Get(message.obj, "timestamp")}
                                    ELSE notified
                  /\ inflight' = Append(inflight, [q |-> q, content |-> content,
                                                   chan |-> channel, threw |-> r.threw,
                                                   sent |-> Len(r.sent)])
                  /\ UNCHANGED <<ackCount, lastDone>>
  /\ UNCHANGED <<mqVars, brokerUp, outages, openConns, declared, consumePending,
                 consumers, serverVars, produced, hubVars, emitVars>>

\* The callback of the i-th suspended delivery resumes and settles it.
Settle(i) ==
  /\ i \in 1..Len(inflight)
  /\ LET a    == inflight[i]
         open == channel = a.chan /\ ChannelOpen
         out  == consumerSettle(a.threw, open)
     IN /\ inflight' = RemoveAt(inflight, i)
        /\ queue' = IF out.nacks = 1 THEN Requeue(queue, a.q, a.content) ELSE queue
        /\ ackCount' = IF out.acks = 1 /\ a.q = ChatQ
                         THEN [ackCount EXCEPT ![KeyOf(a.content.body)] = @ + 1]
                         ELSE ackCount
        /\ lastDone' = [q |-> a.q, failed |-> a.threw, sent |-> a.sent,
                        acks |-> out.acks, nacks |-> out.nacks, open |-> open,
                        back |-> InQueue(queue', a.q, a.content)]
  /\ UNCHANGED <<mqVars, brokerUp, outages, openConns, declared, consumePending,
                 consumers, serverVars, produced, notifCount, notified, hubVars,
                 emitVars>>

\* ------------------------------------------------ server.js: broadcasting
\* One more copy of event e in the bag b.
AddEvent(b, e) ==
  IF e \in DOMAIN b THEN [b EXCEPT ![e] = @ + 1] ELSE b @@ (e :> 1)

Count(b, e) == IF e \in DOMAIN b THEN b[e] ELSE 0

\* Every socket of `targets` is sent e once.
Emit(recv, targets, e) ==
  [s \in Sessions |-> IF s \in targets THEN AddEvent(recv[s], e) ELSE recv[s]]

\* The sockets of this instance a broadcast to `room` is written to: the
\* members of the room index that are still connected.
LocalSockets(room) == {s \in rooms[room] : session[s] = "open"}

AllSockets == {s \in Sessions : session[s] = "open"}

\* The user's socket on another instance sits in the rooms that instance's
\* connection handler joined it to.
RemoteRooms == {UserRoom} \cup getUserChatRooms(UserId)

\* A broadcast goes through Redis once the adapter has been installed; until
\* then the default in-memory adapter serves it to this instance only.
ReachesRemote(room) == adapterReady /\ room \in RemoteRooms

\* ---------------------------------------------- server.js: send_message
\* The message object the handler builds from { chatId, content, attachments }:
\* it has no id; timestamp is `new Date()`, here the event's sequence number.
Message(chatId, now) ==
  [sender |-> UserId, content |-> 1, attachments |-> 1, timestamp |-> now,
   chatId |-> chatId]

\* A handler that emits new_message without waiting for queueMessage.
sendMessageEmitAlways(threw) == [broadcast |-> TRUE, error |-> threw]

\* What the handler emits once `await messageQueue.queueMessage(message)` has
\* settled: new_message to the room when it fulfilled, the catch block's error
\* event to the sending socket when it rejected.
sendMessageEmit(threw) == [broadcast |-> ~threw, error |-> threw]

\* A client emits send_message; the handler runs up to its await, which
\* includes the synchronous body of queueMessage.
SendMessage(chatId) ==
  /\ clock + produced < MaxItems
  /\ LET message == Message(chatId, clock + 1)
         threw   == queueMessageThrows
     IN /\ clock' = clock + 1
        /\ queue' = IF threw THEN queue
                             ELSE Enqueue(queue, ChatQ, JSONstringify(message))
        /\ enqueued' = IF threw THEN enqueued ELSE enqueued \cup {clock + 1}
        /\ sends' = sends \cup {[message |-> message, threw |-> threw, up |-> brokerUp]}
  /\ UNCHANGED <<mqVars, brokerUp, outages, openConns, declared, consumePending,
                 consumers, inflight, broadcasts, errors, produced, ghostVars, hubVars, emitVars>>

\* The handler resumes after the await.
SendMessageResume(s) ==
  /\ s \in sends
  /\ LET out == sendMessageEmit(s.threw)
     IN /\ broadcasts' = IF out.broadcast THEN broadcasts \cup {s.message}
                                          ELSE broadcasts
        /\ errors' = IF out.error THEN errors \cup {s.message.timestamp} ELSE errors
        /\ LET room == s.message.chatId
               e    == Event("new_message", room, s.message.timestamp)
           IN /\ received' = IF out.broadcast
                                THEN Emit(received, LocalSockets(room), e)
                                ELSE received
              /\ remoteReceived' = IF out.broadcast /\ ReachesRemote(room)
                                      THEN AddEvent(remoteReceived, e)
                                      ELSE remoteReceived
  /\ sends' = sends \ {s}
  /\ UNCHANGED <<mqVars, brokerUp, outages, openConns, declared, consumePending,
                 consumers, queue, inflight, clock, enqueued, produced, ghostVars,
                 hubVars>>

\* The events the hub's clients have emitted so far.
ClientEvents == clock + Cardinality(markReads) + Cardinality(DOMAIN chats)

\* A connected client emits send_message.
ClientSendMessage(chatId) ==
  /\ AllSockets # {}
  /\ ClientEvents < MaxItems
  /\ SendMessage(chatId)

\* ------------------------------------------------- server.js: Redis adapter
\* Promise.all([pubClient.connect(), subClient.connect()]).then(...): both
\* Redis clients are connected and io.adapter(createAdapter(...)) runs.  The
\* server has been listening since server.js was loaded.
RedisAdapterConfigured ==
  /\ ~adapterReady
  /\ adapterReady' = TRUE
  /\ UNCHANGED <<mqVars, pipeVars, queue, serverVars, ghostVars, session, joinPending,
                 rooms, chats, markReads, disconnectPending, readStatus, emitVars>>

\* ---------------------------------------------- server.js: connection
\* socket.join(room): the socket is added to the room's set.
Join(rs, room, s) == [rs EXCEPT ![room] = @ \cup {s}]

RECURSIVE JoinAll(_, _, _)
\* rooms.forEach(room => socket.join(`chat:${room}`)).
JoinAll(rs, rms, s) ==
  IF rms = {} THEN rs
  ELSE LET room == CHOOSE r \in rms : TRUE
       IN JoinAll(Join(rs, room, s), rms \ {room}, s)

\* A socket that passed the authentication middleware connects: the handler
\* joins it to the user's personal room and calls getUserChatRooms(userId),
\* whose promise is pending when the handler returns.
Connect(s) ==
  /\ session[s] = "none"
  /\ \A t \in Sessions : t < s => session[t] # "none"
  /\ session' = [session EXCEPT ![s] = "open"]
  /\ rooms' = Join(rooms, UserRoom, s)
  /\ joinPending' = joinPending \cup {s}
  /\ UNCHANGED <<mqVars, pipeVars, queue, serverVars, ghostVars, adapterReady, chats,
                 markReads, disconnectPending, readStatus, emitVars>>

\* The .then callback of getUserChatRooms runs and joins the chat rooms.  On
\* a socket that has disconnected meanwhile socket.join is a no-op in the
\* socket.io releases that guard against it and adds the socket to the rooms
\* in the others: `honoured` is which.
JoinChatRooms(s, honoured) ==
  /\ s \in joinPending
  /\ joinPending' = joinPending \ {s}
  /\ rooms' = IF session[s] = "open" \/ honoured
                THEN JoinAll(rooms, getUserChatRooms(UserId), s)
                ELSE rooms
  /\ UNCHANGED <<mqVars, pipeVars, queue, serverVars, ghostVars, adapterReady, session,
                 chats, markReads, disconnectPending, readStatus, emitVars>>

\* ----------------------------------------------- server.js: mark_read
\* updateMessageReadStatus(chatId, messageId, userId): only logs.
updateMessageReadStatus(status, chatId, messageId, userId) == status

\* A client emits mark_read; the handler runs up to its await.
MarkRead(s, chatId, messageId) ==
  /\ session[s] = "open"
  /\ Cardinality(markReads) < MaxReads
  /\ ClientEvents < MaxItems
  /\ readStatus' = updateMessageReadStatus(readStatus, chatId, messageId, UserId)
  /\ markReads' = markReads \cup {[s |-> s, chatId |-> chatId, messageId |-> messageId,
                                    done |-> FALSE]}
  /\ UNCHANGED <<mqVars, pipeVars, queue, serverVars, ghostVars, adapterReady, session,
                 joinPending, rooms, chats, disconnectPending, emitVars>>

\* The handler resumes: socket.to(`chat:${chatId}`).emit('message_read', ...)
\* goes to the room without the socket itself.
MarkReadResume(p) ==
  /\ p \in markReads
  /\ ~p.done
  /\ markReads' = (markReads \ {p}) \cup {[p EXCEPT !.done = TRUE]}
  /\ LET e == Event("message_read", p.chatId, p.messageId)
     IN /\ received' = Emit(received, LocalSockets(p.chatId) \ {p.s}, e)
        /\ remoteReceived' = IF ReachesRemote(p.chatId) THEN AddEvent(remoteReceived, e)
                                                        ELSE remoteReceived
  /\ UNCHANGED <<mqVars, pipeVars, queue, serverVars, ghostVars, adapterReady, session,
                 joinPending, rooms, chats, disconnectPending, readStatus>>

\* ---------------------------------------------- server.js: create_chat
\* findUserSocket(userId): the first socket of this instance's room
\* `user:${userId}` (a Set iterates in insertion order, which is the order of
\* the socket ids), or null.  Every socket belongs to the placeholder user.
findUserSocket(userId) ==
  IF userId = UserId /\ rooms[UserRoom] # {}
    THEN CHOOSE s \in rooms[UserRoom] : \A t \in rooms[UserRoom] : s <= t
    ELSE NoSocket

\* The user belongs to the rooms storage lists for them and to the chats
\* created with them as a participant.
IsMember(userId, chatId) ==
  \/ chatId \in getUserChatRooms(userId)
  \/ chatId \in DOMAIN chats /\ userId \in chats[chatId].participants

\* A client emits create_chat; the handler runs up to its await:
\* createNewChatRoom builds the chat room object with a fresh id.
CreateChat(s, participants) ==
  /\ session[s] = "open"
  /\ Cardinality(DOMAIN chats) < MaxChats
  /\ ClientEvents < MaxItems
  /\ LET id == Cardinality(DOMAIN chats) + 3
     IN chats' = chats @@ (id :> [creator |-> s, participants |-> participants,
                                  done |-> FALSE])
  /\ UNCHANGED <<mqVars, pipeVars, queue, serverVars, ghostVars, adapterReady, session,
                 joinPending, rooms, markReads, disconnectPending, readStatus, emitVars>>

\* The handler resumes: each participant's socket found by findUserSocket is
\* joined to the new room and sent chat_created, then the creating socket is
\* sent chat_created (an emit to a disconnected socket is dropped).
CreateChatResume(id) ==
  /\ id \in DOMAIN chats
  /\ ~chats[id].done
  /\ chats' = [chats EXCEPT ![id].done = TRUE]
  /\ LET e       == Event("chat_created", id, Undef)
         found   == {findUserSocket(u) : u \in chats[id].participants} \ {NoSocket}
         toFound == Emit(received, found, e)
     IN /\ rooms' = [rooms EXCEPT ![id] = @ \cup found]
        /\ received' = Emit(toFound, {chats[id].creator} \cap AllSockets, e)
  /\ UNCHANGED <<mqVars, pipeVars, queue, serverVars, ghostVars, adapterReady, session,
                 joinPending, markReads, disconnectPending, readStatus, remoteReceived>>

\* ----------------------------------------------- server.js: disconnect
\* A socket disconnects: socket.io takes it out of every room, then the
\* handler runs up to `await updateUserStatus(userId, 'offline')`.
Disconnect(s) ==
  /\ session[s] = "open"
  /\ session' = [session EXCEPT ![s] = "closed"]
  /\ rooms' = [r \in RoomKeys |-> rooms[r] \ {s}]
  /\ disconnectPending' = disconnectPending \cup {s}
  /\ UNCHANGED <<mqVars, pipeVars, queue, serverVars, ghostVars, adapterReady,
                 joinPending, chats, markReads, readStatus, emitVars>>

\* The handler resumes: io.emit('user_status_change', ...) to every socket.
DisconnectResume(s) ==
  /\ s \in disconnectPending
  /\ disconnectPending' = disconnectPending \ {s}
  /\ LET e == Event("user_status_change", Undef, UserId)
     IN /\ received' = Emit(received, AllSockets, e)
        /\ remoteReceived' = IF adapterReady THEN AddEvent(remoteReceived, e)
                                             ELSE remoteReceived
  /\ UNCHANGED <<mqVars, pipeVars, queue, serverVars, ghostVars, adapterReady, session,
                 joinPending, rooms, chats, markReads, readStatus>>

\* ----------------------------------------------------------- environment
\* The broker becomes unreachable: every connection and channel closes, the
\* consumers are gone and the unacknowledged deliveries return to their
\* (durable) queues.  The callbacks already running keep running.
BrokerDown ==
  /\ brokerUp
  /\ outages < MaxOutages
  /\ brokerUp' = FALSE
  /\ outages' = outages + 1
  /\ openConns' = {}
  /\ consumers' = {}
  /\ consumePending' = {}
  /\ queue' = RequeueAll(queue, SelectSeq(inflight, LAMBDA a : a.chan \in openConns))
  /\ UNCHANGED <<mqVars, declared, inflight, serverVars, produced, ghostVars, hubVars, emitVars>>

BrokerUp ==
  /\ ~brokerUp
  /\ brokerUp' = TRUE
  /\ UNCHANGED <<mqVars, outages, openConns, declared, consumePending, consumers,
                 queue, inflight, serverVars, produced, ghostVars, hubVars, emitVars>>

\* Items other producers publish: text that is not JSON, the JSON text "null",
\* and a message envelope that carries an id and a recipient list.
Envelope == [id |-> 1, chatId |-> 2, sender |-> 7, content |-> 1, recipients |-> 1]

\* An envelope without a room identifier.
BadEnvelope == [id |-> 1, sender |-> 7, content |-> 1]

ExternalContents(q) ==
  IF q = ChatQ THEN {Garbage, NullJSON, JSONstringify(Envelope), JSONstringify(BadEnvelope)}
               ELSE {Garbage}

ExternalProduce(q, content) ==
  /\ brokerUp
  /\ clock + produced < MaxItems
  /\ produced' = produced + 1
  /\ queue' = Enqueue(queue, q, content)
  /\ UNCHANGED <<mqVars, brokerUp, outages, openConns, declared, consumePending,
                 consumers, inflight, serverVars, ghostVars, hubVars, emitVars>>

\* ------------------------------------------------------------------ Next
Next ==
  \/ RetryTimerFires
  \/ InitConnect
  \/ InitCreateChannel
  \/ InitAssertChat
  \/ InitAssertNotif
  \/ \E q \in Queues : ConsumeOk(q)
  \/ \E q \in Queues : Consume(q)
  \/ \E i \in 1..Len(inflight) : Settle(i)
  \/ \E c \in RoomIds : SendMessage(c)
  \/ \E s \in sends : SendMessageResume(s)
  \/ BrokerDown
  \/ BrokerUp
  \/ \E q \in Queues : \E content \in ExternalContents(q) : ExternalProduce(q, content)

Spec == Init /\ [][Next]_vars

\* The hub on an instance whose queue adapter has finished initialize() and
\* whose broker stays reachable.
InitOperational ==
  /\ connection = 1
  /\ channel = 1
  /\ initPc = "done"
  /\ retryTimer = FALSE
  /\ brokerUp = TRUE
  /\ outages = 0
  /\ openConns = {1}
  /\ declared = [c \in ConnIds |-> IF c = 1 THEN Queues ELSE {}]
  /\ consumePending = {}
  /\ consumers = Queues
  /\ queue = [q \in Queues |-> <<>>]
  /\ inflight = <<>>
  /\ clock = 0
  /\ sends = {}
  /\ broadcasts = {}
  /\ errors = {}
  /\ enqueued = {}
  /\ produced = 0
  /\ notifCount = [k \in Keys |-> 0]
  /\ ackCount = [k \in Keys |-> 0]
  /\ lastDone = NoAttempt
  /\ notified = {}

HubInit == InitOperational /\ InitHub

HubNext ==
  \/ RedisAdapterConfigured
  \/ \E s \in Sessions : Connect(s)
  \/ \E s \in Sessions : \E honoured \in BOOLEAN : JoinChatRooms(s, honoured)
  \/ \E c \in SendTargets : ClientSendMessage(c)
  \/ \E s \in sends : SendMessageResume(s)
  \/ \E s \in Sessions : \E c \in RoomIds : \E m \in MsgIds : MarkRead(s, c, m)
  \/ \E p \in markReads : MarkReadResume(p)
  \/ \E s \in Sessions : \E ps \in SUBSET {UserId} : CreateChat(s, ps)
  \/ \E id \in DOMAIN chats : CreateChatResume(id)
  \/ \E s \in Sessions : Disconnect(s)
  \/ \E s \in Sessions : DisconnectResume(s)

HubSpec == HubInit /\ [][HubNext]_vars

\* The event loop runs every ready continuation and timer; the broker answers
\* the requests of an open channel and delivers to registered consumers.
\* Nothing is assumed of the environment.
Fairness ==
  /\ WF_vars(RetryTimerFires)
  /\ WF_vars(InitConnect)
  /\ WF_vars(InitCreateChannel)
  /\ WF_vars(InitAssertChat)
  /\ WF_vars(InitAssertNotif)
  /\ WF_vars(\E q \in Queues : ConsumeOk(q))
  /\ WF_vars(\E q \in Queues : Consume(q))
  /\ WF_vars(\E i \in 1..Len(inflight) : Settle(i))
  /\ WF_vars(\E s \in sends : SendMessageResume(s))

FairSpec == Spec /\ Fairness

\* ================================================================ claims
Finished == lastDone.q # "none"

\* C1: in the chat_messages consumer an item is acked only after the
\* notification derived from it was enqueued: for every messageId/chatId pair,
\* the items acked so far never outnumber the notifications enqueued with it.
C1_AckOnlyAfterNotification ==
  \A k \in Keys : ackCount[k] <= notifCount[k]

C1_Witness ==
  \E k \in Keys : ackCount[k] >= 1 /\ k[1] # Undef

\* C2 as stated: every delivery attempt whose callback has finished was
\* settled by exactly one of ack and nack.
C2_ExactlyOneSettle ==
  Finished => lastDone.acks + lastDone.nacks = 1

\* C2 amended: a finished attempt is settled at most once, never by both ack
\* and nack; by exactly one of them when the channel is still open as the
\* callback finishes, and by neither when the channel has closed.
C2_SettledOnceWhileOpen ==
  Finished =>
    /\ lastDone.acks + lastDone.nacks <= 1
    /\ lastDone.open => lastDone.acks + lastDone.nacks = 1
    /\ ~lastDone.open => lastDone.acks + lastDone.nacks = 0

C2_Witness ==
  /\ lastDone.q = ChatQ
  /\ ~lastDone.failed
  /\ ~lastDone.open

\* C3 as stated: a chat_messages attempt that failed (parse error or
\* processMessage rejecting) is nacked, back in the queue and not acked.
C3_FailedIsNacked ==
  (lastDone.q = ChatQ /\ lastDone.failed) =>
    lastDone.nacks = 1 /\ lastDone.acks = 0 /\ lastDone.back

\* C3 amended: a failed chat_messages attempt is never acked and its item is
\* back in the queue; it is nacked when the channel is still open as the
\* callback finishes (otherwise the broker has requeued it on the close).
C3_FailedIsRequeued ==
  (lastDone.q = ChatQ /\ lastDone.failed) =>
    /\ lastDone.acks = 0
    /\ lastDone.back
    /\ lastDone.open => lastDone.nacks = 1

C3_Witness ==
  /\ lastDone.q = ChatQ
  /\ lastDone.failed
  /\ lastDone.nacks = 1
  /\ lastDone.back

\* C4: redelivery is idempotent: however often a message identifier is
\* delivered to the pipeline, one notification is derived for it.
C4_OneNotificationPerMessageId ==
  \A k \in Keys : k[1] # Undef => notifCount[k] <= 1

\* C5 as stated: a notifications attempt is acked on success, nacked on
\* failure, and sends nothing to either queue.
C5_NotificationTerminal ==
  lastDone.q = NotifQ =>
    /\ lastDone.sent = 0
    /\ ~lastDone.failed => lastDone.acks = 1 /\ lastDone.nacks = 0
    /\ lastDone.failed => lastDone.nacks = 1 /\ lastDone.acks = 0

\* C5 amended: a notifications attempt sends nothing to either queue; while
\* the channel is open as its callback finishes it is acked on success and
\* nacked on failure, and it is settled by neither once the channel has closed.
C5_NotificationTerminalWhileOpen ==
  lastDone.q = NotifQ =>
    /\ lastDone.sent = 0
    /\ (lastDone.open /\ ~lastDone.failed) => lastDone.acks = 1 /\ lastDone.nacks = 0
    /\ (lastDone.open /\ lastDone.failed) => lastDone.nacks = 1 /\ lastDone.acks = 0
    /\ ~lastDone.open => lastDone.acks = 0 /\ lastDone.nacks = 0

C5_Witness ==
  /\ lastDone.q = NotifQ
  /\ ~lastDone.failed
  /\ lastDone.open
  /\ lastDone.acks = 1

\* The adapter is up: its channel is open, both queues were declared through
\* it and both consumers are registered.
Operational ==
  /\ ChannelOpen
  /\ declared[channel] = Queues
  /\ consumers = Queues

\* C6: initialization retries without limit, so once the broker stays
\* reachable the adapter eventually has both queues declared and both
\* consumers started.
C6_EventuallyConsuming ==
  (<>[]brokerUp) => <>Operational

C8_NoMessageLost ==
  (<>[]brokerUp) =>
    \A ts \in 1..MaxItems :
      []((\E s \in sends : s.message.timestamp = ts /\ ~s.up) => <>(ts \in enqueued))

\* C9: after an established connection is lost the adapter reconnects,
\* declares the queues again and resumes consuming once the broker is back.
C9_Recovers ==
  (<>Operational /\ <>[]brokerUp) => <>[]Operational

\* C10: new_message is broadcast only for a message whose enqueue succeeded;
\* when the enqueue failed the handler, once finished, has broadcast nothing
\* for it and has sent the error event to the sender.
C10_BroadcastOnlyAfterEnqueue ==
  /\ \A m \in broadcasts : m.timestamp \in enqueued
  /\ \A ts \in 1..clock :
       (ts \notin enqueued /\ ~\E s \in sends : s.message.timestamp = ts) =>
         /\ ts \in errors
         /\ ~\E m \in broadcasts : m.timestamp = ts

C10_Witness ==
  /\ errors # {}
  /\ broadcasts # {}

\* An envelope lacks a required field: its room, its sender, or both its
\* content and its attachments (null lacks them all).
IsMalformed(content) ==
  \/ content.kind = "null"
  \/ /\ content.kind = "object"
     /\ \/ Get(content.body, "chatId") = Undef
        \/ Get(content.body, "sender") = Undef
        \/ Get(content.body, "content") = Undef /\ Get(content.body, "attachments") = Undef

\* C12: the chat_messages callback rejects every malformed envelope (its
\* processing fails, so it is nacked, and no notification is derived from it)
\* and accepts a well-formed one whatever extra fields it carries.
C12_RejectsMalformed ==
  \A i \in 1..Len(inflight) :
    inflight[i].q = ChatQ =>
      IF IsMalformed(inflight[i].content)
        THEN inflight[i].threw /\ inflight[i].sent = 0
        ELSE ~inflight[i].threw

\* C18: a consumer handles one item at a time: no two deliveries of the same
\* queue are unsettled on the open channel with both callbacks in progress.
C18_OneAtATime ==
  \A i, j \in 1..Len(inflight) :
    (i # j /\ inflight[i].q = inflight[j].q) =>
      ~(inflight[i].chan \in openConns /\ inflight[j].chan \in openConns)

\* C20: whenever this.channel is non-null, both queues were declared through
\* that channel and it belongs to the connection opened last.
C20_ChannelMeansInitialized ==
  channel # NullConn => (declared[channel] = Queues /\ channel = connection)

NewMessage(m) == Event("new_message", m.chatId, m.timestamp)

\* C11: a send_message to a room the sender does not belong to is rejected:
\* its enqueue does not happen (the handler is on its way to the error event),
\* and no new_message is ever broadcast to a room the user is no member of.
C11_NonMemberSendRejected ==
  /\ \A s \in sends :
       ~IsMember(UserId, s.message.chatId) =>
         (s.threw /\ s.message.timestamp \notin enqueued)
  /\ \A m \in broadcasts : m.chatId # OtherRoom

\* C13: when new_message is broadcast to a room, every socket connected at
\* that moment whose user is a member of the room is sent it exactly once.
C13_BroadcastReachesMembers ==
  [][\A m \in broadcasts' \ broadcasts :
       IsMember(UserId, m.chatId) =>
         \A s \in AllSockets :
           Count(received'[s], NewMessage(m)) = Count(received[s], NewMessage(m)) + 1]_vars

\* C14: every new_message broadcast to a room goes through the cross-instance
\* fan-out: the member's socket on the other instance has been sent it.
C14_BroadcastFansOut ==
  \A m \in broadcasts :
    m.chatId \in RemoteRooms => Count(remoteReceived, NewMessage(m)) >= 1

\* C15: when the create_chat handler has finished, the creator and every
\* participant with a live socket, on this instance or another, have been
\* sent chat_created, and each of those sockets is in the new room.
C15_ChatCreatedReachesAll ==
  [][\A id \in DOMAIN chats :
       (~chats[id].done /\ chats'[id].done) =>
         /\ \A s \in AllSockets :
              (s = chats[id].creator \/ UserId \in chats[id].participants) =>
                /\ Count(received'[s], Event("chat_created", id, Undef)) >= 1
                /\ s \in rooms'[id]
         /\ UserId \in chats[id].participants =>
              Count(remoteReceived', Event("chat_created", id, Undef)) >= 1]_vars

C17_ReadBackfillsDelivered ==
  \A p \in markReads :
    /\ readStatus[p.messageId].readAt # Undef
    /\ readStatus[p.messageId].deliveredAt = readStatus[p.messageId].readAt

====
